---- MODULE Spec2Model ----
(***************************************************************************)
(* Model of the conversation-context cache (src/threadContext.js), the     *)
(* request-rate limiter (src/aiService.js) and the two Slack handlers that *)
(* compose them (src/app.js).                                              *)
(*                                                                         *)
(* Time is an integer clock `now` (Date.now()); one tick stands for a      *)
(* fixed number of milliseconds.  The program's sizes and durations are    *)
(* scaled down (see the definitions below); every comparison is kept as    *)
(* the code writes it.                                                     *)
(*                                                                         *)
(* Environment: the message source (conversations.replies) and the        *)
(* completion service may fail or time out, and so may auth.test,         *)
(* conversations.info and chat.update.  say() is taken to succeed.         *)
(***************************************************************************)
EXTENDS Integers, Sequences, FiniteSets, TLC

(* ---- sizes and durations (scaled) ---- *)

\* THREAD_CONFIG.MAX_CACHE_SIZE (1000 in the source)
MAX_CACHE_SIZE == 3

\* THREAD_CONFIG.MAX_CONTEXT_MESSAGES (100 in the source)
MAX_CONTEXT_MESSAGES == 2

\* the "+ 20" of the fetch limit (20 <= MAX_CONTEXT_MESSAGES in the source)
FETCH_EXTRA == 1

\* this.ttl, in ticks (60 minutes in the source)
TTL == 1

\* the period of the cleanup timer, in ticks (15 minutes in the source)
SWEEP_PERIOD == 2

\* RATE_LIMIT_WINDOW, in ticks (60000 ms in the source)
RATE_LIMIT_WINDOW == 2

\* MAX_REQUESTS_PER_WINDOW (10 in the source)
MAX_REQUESTS_PER_WINDOW == 2

\* last value of the clock when the store or the rate limiter is driven call by call
MaxTime == 3

\* last value of the clock while requests are handled
MaxClock == 2

\* total number of inbound events handled in one behaviour
MaxRequests == 3

\* thread ids (channel-thread_ts): one more than the cache holds
Threads == 1..(MAX_CACHE_SIZE + 1)

\* requester identities
Users == {1, 2}

Requests == 1..MaxRequests

\* the inbound events come from one requester, in one thread or outside any thread
ReqThreads == {1}

ReqUsers == {1}

\* how often the history update is applied in a row, and how much longer than the
\* retention bound the history it starts from may be
MaxFolds == 3

MaxExcess == 2
Times == 0..MaxTime

VARIABLES
  now,           \* Date.now()
  cache,         \* ThreadContextCache.cache: the Map, as its entries in iteration order
  rateLimitMap,  \* rateLimitMap: userId -> admitted timestamps still recorded
  insOrder,      \* history: keys in the order they entered the Map
  lastOp,        \* history: the call the store harness made in the last step
  admitLog,      \* history: per user, every timestamp at which checkRateLimit returned true
  denyLog,       \* history: per user, the times at which checkRateLimit returned false
  lastAdmit,     \* history: the checkRateLimit call made by the last step
  reqs,          \* per inbound event: where its handler stands, its locals, what it posted
  lastDone,      \* history: the request whose handler returned in the last step, as it ended
  lastFold,      \* history: the last update of a thread's history (app.js lines 104-113)
  lastRebuild,   \* history: the last rebuild of a thread's history (getThreadHistory)
  nextSweep,     \* the time at which the cleanup timer of the constructor fires next
  apiReq         \* a request to POST /api/decision-record: where it stands, its answer

vars == <<now, cache, rateLimitMap, insOrder, lastOp, admitLog, denyLog, lastAdmit,
          reqs, lastDone, lastFold, lastRebuild, nextSweep, apiReq>>

(* ---- conversation turns ---- *)

Turn(role, content) == [role |-> role, content |-> content]

(* ---- ThreadContextCache ---- *)

KeysOf(c) == [i \in 1..Len(c) |-> c[i].threadId]

HasKey(c, threadId) == \E i \in 1..Len(c) : c[i].threadId = threadId

IndexOf(c, threadId) == CHOOSE i \in 1..Len(c) : c[i].threadId = threadId

\* Map.prototype.delete: removes the key, the others keep their order
MapDelete(c, threadId) == SelectSeq(c, LAMBDA e : e.threadId # threadId)

MapSetMoveToEnd(c, threadId, value) ==
  Append(MapDelete(c, threadId), [threadId |-> threadId] @@ value)

\* Map.prototype.set: an existing key keeps its position, a new key goes last
MapSet(c, threadId, value) ==
  IF HasKey(c, threadId)
    THEN [c EXCEPT ![IndexOf(c, threadId)] = [threadId |-> threadId] @@ value]
    ELSE Append(c, [threadId |-> threadId] @@ value)

EvictNever(c) == c

EvictNewest(c) ==
  IF Len(c) >= MAX_CACHE_SIZE /\ Len(c) > 0 THEN SubSeq(c, 1, Len(c) - 1) ELSE c

\* set(), lines 18-22: at or over the size limit, delete the first key of the Map
EvictOldest(c) ==
  IF Len(c) >= MAX_CACHE_SIZE /\ Len(c) > 0 THEN Tail(c) ELSE c

\* set(threadId, context) at time t
CacheSet(c, threadId, context, t) ==
  MapSet(EvictOldest(c), threadId, [context |-> context, timestamp |-> t])

ExpiredNever(entry, t) == FALSE

ExpiredAtTtl(entry, t) == t - entry.timestamp >= TTL

\* the expiry test of get() and cleanup(): Date.now() - entry.timestamp > this.ttl
Expired(entry, t) == t - entry.timestamp > TTL

NoContext == << >>

CacheGetKeepExpired(c, threadId, t) ==
  IF ~HasKey(c, threadId)
    THEN [hit |-> FALSE, context |-> NoContext, cache |-> c]
  ELSE IF Expired(c[IndexOf(c, threadId)], t)
    THEN [hit |-> FALSE, context |-> NoContext, cache |-> c]
  ELSE [hit |-> TRUE, context |-> c[IndexOf(c, threadId)].context, cache |-> c]

CacheGetExpiredOnce(c, threadId, t) ==
  IF ~HasKey(c, threadId)
    THEN [hit |-> FALSE, context |-> NoContext, cache |-> c]
  ELSE IF Expired(c[IndexOf(c, threadId)], t)
    THEN [hit |-> TRUE, context |-> c[IndexOf(c, threadId)].context,
          cache |-> MapDelete(c, threadId)]
  ELSE [hit |-> TRUE, context |-> c[IndexOf(c, threadId)].context, cache |-> c]

CacheGetFirstEntry(c, threadId, t) ==
  IF ~HasKey(c, threadId)
    THEN [hit |-> FALSE, context |-> NoContext, cache |-> c]
  ELSE IF Expired(c[IndexOf(c, threadId)], t)
    THEN [hit |-> FALSE, context |-> NoContext, cache |-> MapDelete(c, threadId)]
  ELSE [hit |-> TRUE, context |-> c[1].context, cache |-> c]

\* get(threadId) at time t: the value returned (hit, context) and the Map afterwards
CacheGet(c, threadId, t) ==
  IF ~HasKey(c, threadId)
    THEN [hit |-> FALSE, context |-> NoContext, cache |-> c]
  ELSE IF Expired(c[IndexOf(c, threadId)], t)
    THEN [hit |-> FALSE, context |-> NoContext, cache |-> MapDelete(c, threadId)]
  ELSE [hit |-> TRUE, context |-> c[IndexOf(c, threadId)].context, cache |-> c]

CleanupFirstOnly(c, t) ==
  IF Len(c) > 0 /\ Expired(c[1], t) THEN Tail(c) ELSE c

\* cleanup() at time t
Cleanup(c, t) == SelectSeq(c, LAMBDA e : ~Expired(e, t))

(* ---- checkRateLimit ---- *)

checkRateLimitOffByOne(m, userId, t) ==
  LET userRequests == m[userId]
      recentRequests == SelectSeq(userRequests, LAMBDA time : t - time < RATE_LIMIT_WINDOW)
  IN IF Len(recentRequests) > MAX_REQUESTS_PER_WINDOW
       THEN [ok |-> FALSE, map |-> m]
       ELSE [ok |-> TRUE, map |-> [m EXCEPT ![userId] = Append(recentRequests, t)]]

checkRateLimitRecordsDenied(m, userId, t) ==
  LET userRequests == m[userId]
      recentRequests == SelectSeq(userRequests, LAMBDA time : t - time < RATE_LIMIT_WINDOW)
  IN IF Len(recentRequests) >= MAX_REQUESTS_PER_WINDOW
       THEN [ok |-> FALSE, map |-> [m EXCEPT ![userId] = Append(recentRequests, t)]]
       ELSE [ok |-> TRUE, map |-> [m EXCEPT ![userId] = Append(recentRequests, t)]]

checkRateLimitNoPrune(m, userId, t) ==
  LET userRequests == m[userId]
      recentRequests == SelectSeq(userRequests, LAMBDA time : t - time < RATE_LIMIT_WINDOW)
  IN IF Len(recentRequests) >= MAX_REQUESTS_PER_WINDOW
       THEN [ok |-> FALSE, map |-> m]
       ELSE [ok |-> TRUE, map |-> [m EXCEPT ![userId] = Append(userRequests, t)]]

checkRateLimitSharedRecord(m, userId, t) ==
  LET userRequests == m[1] \o m[2]
      recentRequests == SelectSeq(userRequests, LAMBDA time : t - time < RATE_LIMIT_WINDOW)
  IN IF Len(recentRequests) >= MAX_REQUESTS_PER_WINDOW
       THEN [ok |-> FALSE, map |-> m]
       ELSE [ok |-> TRUE, map |-> [m EXCEPT ![userId] = Append(recentRequests, t)]]

\* checkRateLimit(userId) at time t: the boolean returned and rateLimitMap afterwards
checkRateLimit(m, userId, t) ==
  LET userRequests == m[userId]
      recentRequests == SelectSeq(userRequests, LAMBDA time : t - time < RATE_LIMIT_WINDOW)
  IN IF Len(recentRequests) >= MAX_REQUESTS_PER_WINDOW
       THEN [ok |-> FALSE, map |-> m]
       ELSE [ok |-> TRUE, map |-> [m EXCEPT ![userId] = Append(recentRequests, t)]]

(* ---- initial state ---- *)

NoOp ==
  [op |-> "none", key |-> 0, time |-> 0, preLen |-> 0, preHad |-> FALSE,
   evicted |-> << >>, hit |-> FALSE, context |-> NoContext]

NoAdmit == [user |-> 0, time |-> 0, ok |-> FALSE, inWindow |-> 0]

NoRequest ==
  [pc |-> "new", kind |-> "none", user |-> 0, thread |-> 0, history |-> << >>,
   out |-> << >>, admit |-> "none", did |-> {}, completion |-> "none"]

NoFold == [existing |-> << >>, user |-> 0, assistant |-> 0, result |-> << >>, n |-> 0]

NoRebuild == [msgs |-> << >>, result |-> << >>, done |-> FALSE]

\* no request to the decision-record endpoint
NoApiRequest ==
  [pc |-> "none", apiKey |-> "", expected |-> "", body |-> [depth |-> 0],
   status |-> 0, post |-> FALSE]

\* the state after the modules are loaded: empty cache, empty rate-limit map
Loaded ==
  /\ now = 0
  /\ cache = << >>
  /\ rateLimitMap = [u \in Users |-> << >>]
  /\ insOrder = << >>
  /\ lastOp = NoOp
  /\ admitLog = [u \in Users |-> << >>]
  /\ denyLog = [u \in Users |-> {}]
  /\ lastAdmit = NoAdmit
  /\ reqs = [r \in Requests |-> NoRequest]
  /\ lastDone = NoRequest
  /\ nextSweep = SWEEP_PERIOD

Init ==
  /\ Loaded
  /\ apiReq = NoApiRequest
  /\ lastFold = NoFold
  /\ lastRebuild = NoRebuild

\* the clock advances
Tick ==
  /\ now < MaxTime
  /\ now' = now + 1
  /\ lastOp' = NoOp
  /\ lastAdmit' = NoAdmit
  /\ UNCHANGED <<cache, rateLimitMap, insOrder, admitLog, denyLog, reqs, lastDone, lastFold, lastRebuild, nextSweep, apiReq>>

(* ---- the store driven call by call ---- *)

\* contexts handed to set() by the harness
StoreContexts ==
  { <<Turn("user", 1)>>, <<Turn("user", 1), Turn("assistant", 2)>> }

SeqRange(s) == {s[i] : i \in 1..Len(s)}

SeqMinus(s, gone) == SelectSeq(s, LAMBDA x : x \notin gone)

\* the entries the eviction step of set() removed from c
Evicted(c) ==
  SelectSeq(c, LAMBDA e : ~HasKey(EvictOldest(c), e.threadId))

\* keys in the order they entered the Map: a key enters when set() finds it absent
\* (after the eviction step), and leaves when it is deleted
OrderAfterSet(order, c, threadId) ==
  LET kept == SeqMinus(order, SeqRange(KeysOf(Evicted(c))))
  IN IF threadId \in SeqRange(kept) THEN kept ELSE Append(kept, threadId)

\* the keys of c that are no longer in d
KeysGone(c, d) == SeqRange(KeysOf(c)) \ SeqRange(KeysOf(d))

StorePut(threadId, context) ==
  /\ cache' = CacheSet(cache, threadId, context, now)
  /\ insOrder' = OrderAfterSet(insOrder, cache, threadId)
  /\ lastOp' = [op |-> "set", key |-> threadId, time |-> now,
                preLen |-> Len(cache), preHad |-> HasKey(cache, threadId),
                evicted |-> Evicted(cache), hit |-> FALSE, context |-> context]
  /\ UNCHANGED <<now, rateLimitMap, admitLog, denyLog, lastAdmit, reqs, lastDone, lastFold, lastRebuild, nextSweep, apiReq>>

\* the call before was a get of the same key at the same time
SameGet(op, threadId, t) == op.op = "get" /\ op.key = threadId /\ op.time = t

StoreGet(threadId) ==
  LET r == CacheGet(cache, threadId, now)
  IN /\ cache' = r.cache
     /\ insOrder' = SeqMinus(insOrder, KeysGone(cache, r.cache))
     /\ lastOp' = [op |-> "get", key |-> threadId, time |-> now,
                   preLen |-> Len(cache), preHad |-> HasKey(cache, threadId),
                   evicted |-> << >>, hit |-> r.hit, context |-> r.context,
                   again |-> SameGet(lastOp, threadId, now),
                   prev |-> IF SameGet(lastOp, threadId, now)
                              THEN [hit |-> lastOp.hit, context |-> lastOp.context,
                                    preHad |-> lastOp.preHad]
                              ELSE [hit |-> FALSE, context |-> NoContext,
                                    preHad |-> FALSE]]
     /\ UNCHANGED <<now, rateLimitMap, admitLog, denyLog, lastAdmit, reqs, lastDone, lastFold, lastRebuild, nextSweep, apiReq>>

StoreSweep ==
  /\ cache' = Cleanup(cache, now)
  /\ insOrder' = SeqMinus(insOrder, KeysGone(cache, cache'))
  /\ lastOp' = [op |-> "cleanup", key |-> 0, time |-> now,
                preLen |-> Len(cache), preHad |-> FALSE,
                evicted |-> << >>, hit |-> FALSE, context |-> NoContext]
  /\ UNCHANGED <<now, rateLimitMap, admitLog, denyLog, lastAdmit, reqs, lastDone, lastFold, lastRebuild, nextSweep, apiReq>>

NextStore ==
  \/ \E k \in Threads, ctx \in StoreContexts : StorePut(k, ctx)
  \/ \E k \in Threads : StoreGet(k)
  \/ StoreSweep
  \/ Tick

SpecStore == Init /\ [][NextStore]_vars

(* ---- the rate limiter driven call by call ---- *)

\* how many of the logged timestamps lie in the window (t - RATE_LIMIT_WINDOW, t]
InWindow(log, t) ==
  Cardinality({i \in 1..Len(log) : t - RATE_LIMIT_WINDOW < log[i] /\ log[i] <= t})

\* the history kept of one checkRateLimit call for userId at the current time
AdmitHistory(userId, ok) ==
  /\ admitLog' = IF ok THEN [admitLog EXCEPT ![userId] = Append(@, now)] ELSE admitLog
  /\ denyLog' = IF ok THEN denyLog ELSE [denyLog EXCEPT ![userId] = @ \cup {now}]
  /\ lastAdmit' = [user |-> userId, time |-> now, ok |-> ok,
                   inWindow |-> InWindow(admitLog[userId], now)]

Admit(userId) ==
  LET r == checkRateLimit(rateLimitMap, userId, now)
  IN /\ rateLimitMap' = r.map
     /\ AdmitHistory(userId, r.ok)
     /\ UNCHANGED <<now, cache, insOrder, lastOp, reqs, lastDone, lastFold, lastRebuild, nextSweep, apiReq>>

NextRate ==
  \/ \E u \in Users : Admit(u)
  \/ Tick

SpecRate == Init /\ [][NextRate]_vars

(* ---- getThreadHistory ---- *)

\* the bot's own user id, as auth.test returns it
BotUserId == "UBOT"

RawMessage(ts, user, bot_id, subtype, text) ==
  [ts |-> ts, user |-> user, bot_id |-> bot_id, subtype |-> subtype, text |-> text]

\* messages a thread of the message source may hold ("" and 0 stand for an absent
\* field and an empty text)
RawPool ==
  { RawMessage(1, "U1", "", "", 11),
    RawMessage(2, "UBOT", "B1", "", 12),
    RawMessage(3, "U2", "", "", 13) }

\* conversations.replies is asked for at most this many messages
FetchLimit == MAX_CONTEXT_MESSAGES + FETCH_EXTRA

\* what one call of conversations.replies may return: at most FetchLimit different
\* messages of the thread, in any order
FetchResults ==
  UNION { { m \in [1..n -> RawPool] : \A i, j \in 1..n : i # j => m[i] # m[j] }
          : n \in 0..FetchLimit }

\* insert m into the sorted sequence s, after the messages that do not compare greater
RECURSIVE InsertByTs(_, _)
InsertByTs(s, m) ==
  IF s = << >> THEN <<m>>
  ELSE IF Head(s).ts - m.ts > 0 THEN <<m>> \o s
  ELSE <<Head(s)>> \o InsertByTs(Tail(s), m)

\* result.messages.sort((a, b) => parseFloat(a.ts) - parseFloat(b.ts))
RECURSIVE SortByTs(_)
SortByTs(msgs) ==
  IF msgs = << >> THEN << >>
  ELSE InsertByTs(SortByTs(SubSeq(msgs, 1, Len(msgs) - 1)), msgs[Len(msgs)])

\* the loop of lines 69-88 from message i on, with the turns and the user count so far
RECURSIVE FormatFrom(_, _, _, _)
FormatFrom(msgs, i, formatted, userMessageCount) ==
  IF i > Len(msgs) THEN formatted
  ELSE LET message == msgs[i] IN
    IF message.subtype # "" /\ message.subtype # "bot_message"
      THEN FormatFrom(msgs, i + 1, formatted, userMessageCount)
    ELSE IF message.user = BotUserId \/ message.bot_id = BotUserId
      THEN FormatFrom(msgs, i + 1,
                      Append(formatted, Turn("assistant", message.text)),
                      userMessageCount)
    ELSE IF message.text # 0
      THEN IF userMessageCount + 1 >= MAX_CONTEXT_MESSAGES
             THEN Append(formatted, Turn("user", message.text))
             ELSE FormatFrom(msgs, i + 1,
                             Append(formatted, Turn("user", message.text)),
                             userMessageCount + 1)
    ELSE FormatFrom(msgs, i + 1, formatted, userMessageCount)

getThreadHistoryUnsorted(msgs) == FormatFrom(msgs, 1, << >>, 0)

getThreadHistorySkipRelayed(msgs) ==
  LET Plain(m) == m.subtype = ""
  IN FormatFrom(SortByTs(SelectSeq(msgs, Plain)), 1, << >>, 0)

\* getThreadHistory when the fetch succeeded with `msgs`
getThreadHistory(msgs) == FormatFrom(SortByTs(msgs), 1, << >>, 0)

(* ---- the mention and direct-message handlers ---- *)

\* userMessage and aiResponse of request r
UserMessage(r) == 100 + r

AiResponse(r) == 200 + r

UserTurn(r) == Turn("user", UserMessage(r))

AssistantTurn(r) == Turn("assistant", AiResponse(r))

UpdatedHistoryUntrimmed(conversationHistory, userTurn, assistantTurn) ==
  conversationHistory \o <<userTurn, assistantTurn>>

UpdatedHistoryKeepOldest(conversationHistory, userTurn, assistantTurn) ==
  LET all == conversationHistory \o <<userTurn, assistantTurn>>
  IN IF Len(all) > MAX_CONTEXT_MESSAGES * 2
       THEN SubSeq(all, 1, MAX_CONTEXT_MESSAGES * 2)
       ELSE all

\* lines 104-113: append the two turns, then splice the excess off the front
UpdatedHistory(conversationHistory, userTurn, assistantTurn) ==
  LET all == conversationHistory \o <<userTurn, assistantTurn>>
  IN IF Len(all) > MAX_CONTEXT_MESSAGES * 2
       THEN SubSeq(all, Len(all) - MAX_CONTEXT_MESSAGES * 2 + 1, Len(all))
       ELSE all

PcAfterRateLimitNoReturn(ok) == "thinking"

\* lines 46-58: a denied request returns after the notice, an admitted one goes on
PcAfterRateLimit(ok) == IF ok THEN "thinking" ELSE "done"

CacheAfterCompletionPartial(c, threadId, conversationHistory, r, ok, t) ==
  IF ok
    THEN CacheSet(c, threadId,
                  UpdatedHistory(conversationHistory, UserTurn(r), AssistantTurn(r)), t)
    ELSE CacheSet(c, threadId, Append(conversationHistory, UserTurn(r)), t)

\* lines 97-115 and 138-144: the cache after the completion call of a thread request
\* returned (ok) or threw
CacheAfterCompletion(c, threadId, conversationHistory, r, ok, t) ==
  IF ok
    THEN CacheSet(c, threadId,
                  UpdatedHistory(conversationHistory, UserTurn(r), AssistantTurn(r)), t)
    ELSE c

\* requests are numbered in the order their events arrive
IsNext(r) == reqs[r].pc = "new" /\ (IF r = 1 THEN TRUE ELSE reqs[r - 1].pc # "new")

Post(req, notice) == Append(req.out, notice)

NoHarness ==
  /\ lastOp' = NoOp
  /\ lastAdmit' = NoAdmit
  /\ UNCHANGED <<insOrder, admitLog, denyLog, lastFold, lastRebuild, nextSweep, apiReq>>

\* a handler that returned: its locals are gone, the outcome of its completion call
\* stays on record
Finished(req) == [NoRequest EXCEPT !.pc = "done", !.completion = req.completion]

\* lastDone after a step that left request r as `req`
Returned(r, req) ==
  lastDone' = IF req.pc = "done" THEN [req EXCEPT !.history = << >>] ELSE NoRequest

\* reqs after a step that left request r as `req`
Becomes(r, req) ==
  /\ reqs' = [reqs EXCEPT ![r] = IF req.pc = "done" THEN Finished(req) ELSE req]
  /\ Returned(r, req)

\* the catch block, lines 138-144 and 188-191
Fail(req) == [req EXCEPT !.pc = "done", !.out = Post(req, "error")]

IsThreadAlways(req) == req.kind # "none"

\* line 67, if (event.thread_ts): the mention lies in a thread; the direct-message
\* handler has no such branch
IsThread(req) == req.kind = "mention" /\ req.thread # 0

PcAfterGetAlwaysFetch(hit) == "fetching"

\* lines 71-73: only a miss (get returned null) leads to the thread fetch
PcAfterGet(hit) == IF hit THEN "completing" ELSE "fetching"

\* app_mention, lines 36-58: rate limit check, then the notice or the thinking message
MentionStart(r, user, thread) ==
  LET a == checkRateLimit(rateLimitMap, user, now)
  IN /\ IsNext(r)
     /\ rateLimitMap' = a.map
     /\ Becomes(r, [reqs[r] EXCEPT !.pc = PcAfterRateLimit(a.ok), !.kind = "mention",
                                   !.user = user, !.thread = thread,
                                   !.admit = IF a.ok THEN "ok" ELSE "denied",
                                   !.out = IF a.ok THEN <<"thinking">>
                                                   ELSE <<"rate_limit">>])
     /\ NoHarness
     /\ UNCHANGED <<now, cache>>

\* lines 61-73 and 88-101: auth.test returned or threw; read the cache, then either
\* fetch the thread or call the completion service
MentionContinue(r, authOk) ==
  LET req == reqs[r]
      g == CacheGet(cache, req.thread, now)
      \* line 91: the debug log reads the cache again
      g2 == CacheGet(g.cache, req.thread, now)
  IN /\ req.pc = "thinking"
     /\ IF ~authOk
          THEN /\ Becomes(r, Fail(req))
               /\ UNCHANGED cache
        ELSE IF ~IsThread(req)
          THEN /\ Becomes(r, [req EXCEPT !.pc = "completing", !.did = @ \cup {"complete"}])
               /\ UNCHANGED cache
        ELSE IF PcAfterGet(g.hit) = "completing"
          THEN /\ Becomes(r, [req EXCEPT !.pc = "completing", !.history = g.context,
                                         !.did = @ \cup {"get", "complete"}])
               /\ cache' = g2.cache
        ELSE /\ Becomes(r, [req EXCEPT !.pc = "fetching", !.did = @ \cup {"get", "fetch"}])
             /\ cache' = g.cache
     /\ NoHarness
     /\ UNCHANGED <<now, rateLimitMap>>

RebuiltFailureRaises(fetchOk, msgs) ==
  IF fetchOk THEN [raised |-> FALSE, history |-> getThreadHistory(msgs)]
             ELSE [raised |-> TRUE, history |-> << >>]

\* getThreadHistory as the handler sees it (threadContext.js lines 52-95): the turns of
\* the fetched messages, or the empty list from the catch block when the fetch threw
Rebuilt(fetchOk, msgs) ==
  IF fetchOk THEN [raised |-> FALSE, history |-> getThreadHistory(msgs)]
             ELSE [raised |-> FALSE, history |-> << >>]

CacheAfterRebuildAlways(c, threadId, conversationHistory, t) ==
  CacheSet(c, threadId, conversationHistory, t)

\* lines 83-85: only a non-empty rebuilt history is cached
CacheAfterRebuild(c, threadId, conversationHistory, t) ==
  IF Len(conversationHistory) > 0
    THEN CacheSet(c, threadId, conversationHistory, t)
    ELSE c

\* lines 75-101: conversations.replies returned `msgs` or threw; cache a non-empty
\* history, then call the completion service
FetchReturn(r, fetchOk, msgs) ==
  LET req == reqs[r]
      rebuilt == Rebuilt(fetchOk, msgs)
      conversationHistory == rebuilt.history
      c1 == CacheAfterRebuild(cache, req.thread, conversationHistory, now)
      \* line 91: the debug log reads the cache
      c2 == CacheGet(c1, req.thread, now).cache
  IN /\ req.pc = "fetching"
     /\ IF rebuilt.raised
          THEN /\ Becomes(r, Fail(req))
               /\ UNCHANGED cache
          ELSE /\ Becomes(r, [req EXCEPT !.pc = "completing",
                                         !.history = conversationHistory,
                                         !.did = @ \cup {"complete"}
                                                   \cup (IF ~fetchOk THEN {"fetch_failed"}
                                                                     ELSE {})
                                                   \cup (IF Len(conversationHistory) > 0
                                                           THEN {"set"} ELSE {})])
               /\ cache' = c2
     /\ NoHarness
     /\ UNCHANGED <<now, rateLimitMap>>

\* lines 97-137 (mention) and 168-186 (direct message): the completion call returned
\* or threw (a timeout throws); on success update the thread's history, then replace the
\* thinking message by the reply (chat.update may throw)
CompletionReturn(r, ok, updateOk) ==
  LET req == reqs[r]
      after == [req EXCEPT !.completion = IF ok THEN "ok" ELSE "failed",
                           !.did = IF ok /\ IsThread(req) THEN @ \cup {"set"} ELSE @]
  IN /\ req.pc = "completing"
     /\ cache' = IF IsThread(req)
                   THEN CacheAfterCompletion(cache, req.thread, req.history, r, ok, now)
                   ELSE cache
     /\ Becomes(r, IF ok /\ updateOk
                     THEN [after EXCEPT !.pc = "done", !.out = Post(after, "reply")]
                     ELSE Fail(after))
     /\ NoHarness
     /\ UNCHANGED <<now, rateLimitMap>>

\* app.message, lines 148-154: a message without bot_id and subtype arrives and the
\* handler asks conversations.info for its channel
DmStart(r, user) ==
  /\ IsNext(r)
  /\ Becomes(r, [reqs[r] EXCEPT !.pc = "info", !.kind = "dm", !.user = user])
  /\ NoHarness
  /\ UNCHANGED <<now, cache, rateLimitMap>>

\* lines 154-168: conversations.info returned (is_im or not) or threw; in a direct
\* message check the rate limit, then post the notice or start the completion call
DmInfoReturn(r, infoOk, isIm) ==
  LET req == reqs[r]
      a == checkRateLimit(rateLimitMap, req.user, now)
      pc == IF PcAfterRateLimit(a.ok) = "thinking" THEN "completing" ELSE "done"
  IN /\ req.pc = "info"
     /\ IF ~infoOk
          THEN /\ Becomes(r, Fail(req))
               /\ UNCHANGED rateLimitMap
        ELSE IF ~isIm
          THEN /\ Becomes(r, [req EXCEPT !.pc = "done"])
               /\ UNCHANGED rateLimitMap
        ELSE /\ rateLimitMap' = a.map
             /\ Becomes(r, [req EXCEPT !.pc = pc,
                                       !.admit = IF a.ok THEN "ok" ELSE "denied",
                                       !.did = IF pc = "completing"
                                                 THEN @ \cup {"complete"} ELSE @,
                                       !.out = IF a.ok THEN <<"thinking">>
                                                       ELSE <<"rate_limit">>])
     /\ NoHarness
     /\ UNCHANGED <<now, cache>>

\* the clock advances while requests are in flight
Advance ==
  /\ now < MaxClock
  /\ now' = now + 1
  /\ lastDone' = NoRequest
  /\ NoHarness
  /\ UNCHANGED <<cache, rateLimitMap, reqs>>

\* the setInterval callback of the constructor, line 13
Sweep ==
  /\ cache' = Cleanup(cache, now)
  /\ cache' # cache
  /\ lastDone' = NoRequest
  /\ NoHarness
  /\ UNCHANGED <<now, rateLimitMap, reqs>>

Next ==
  \/ \E r \in Requests, u \in ReqUsers, th \in {0} \cup ReqThreads : MentionStart(r, u, th)
  \/ \E r \in Requests, authOk \in BOOLEAN : MentionContinue(r, authOk)
  \/ \E r \in Requests : FetchReturn(r, FALSE, << >>)
  \/ \E r \in Requests, msgs \in FetchResults : FetchReturn(r, TRUE, msgs)
  \/ \E r \in Requests, ok \in BOOLEAN, updateOk \in BOOLEAN : CompletionReturn(r, ok, updateOk)
  \/ \E r \in Requests, u \in ReqUsers : DmStart(r, u)
  \/ \E r \in Requests, infoOk \in BOOLEAN, isIm \in BOOLEAN : DmInfoReturn(r, infoOk, isIm)
  \/ Sweep
  \/ Advance

Spec == Init /\ [][Next]_vars

\* the handlers with the progress the code gives them: the completion call is raced
\* against a timer (aiService.js lines 164-184), so it returns or throws; auth.test and
\* conversations.info are taken to answer.  conversations.replies is awaited without a
\* timer (threadContext.js lines 54-58): nothing makes it return.
SpecLive ==
  /\ Init
  /\ [][Next]_vars
  /\ WF_vars(\E r \in Requests, authOk \in BOOLEAN : MentionContinue(r, authOk))
  /\ WF_vars(\E r \in Requests, ok \in BOOLEAN, updateOk \in BOOLEAN :
               CompletionReturn(r, ok, updateOk))
  /\ WF_vars(\E r \in Requests, infoOk \in BOOLEAN, isIm \in BOOLEAN :
               DmInfoReturn(r, infoOk, isIm))

(* ---- mentions in a thread that holds the mention and the thinking message ---- *)

\* event.text of request r: userMessage with the mention of the bot still in it
EventText(r) == 300 + r

\* the text of the thinking message, line 56
ThinkingText == 400

\* the mention that triggered request r, as the thread holds it
MentionMessage(r) == RawMessage(10 * r, "U1", "", "", EventText(r))

\* the thinking message the handler of request r posted into the thread, lines 55-58
ThinkingMessage(r) == RawMessage(10 * r + 1, BotUserId, "B1", "", ThinkingText)

\* the thread before the mention: few enough messages for the fetch to reach the end
PriorMessages == {m \in FetchResults : Len(m) <= FetchLimit - 2}

\* what conversations.replies returns to request r: the say() of line 55 was awaited
\* before the call, so the thread ends with the mention and the thinking message
ThreadAtFetch(r, prior) == prior \o <<MentionMessage(r), ThinkingMessage(r)>>

\* getOpenAIResponseWithContext, aiService.js lines 137-141: the messages sent
Prompt(conversationHistory, userMessage) ==
  <<Turn("system", 0)>> \o conversationHistory \o <<Turn("user", userMessage)>>

NextThread ==
  \/ \E r \in Requests, u \in ReqUsers, th \in ReqThreads : MentionStart(r, u, th)
  \/ \E r \in Requests, authOk \in BOOLEAN : MentionContinue(r, authOk)
  \/ \E r \in Requests : FetchReturn(r, FALSE, << >>)
  \/ \E r \in Requests, prior \in PriorMessages :
       FetchReturn(r, TRUE, ThreadAtFetch(r, prior))
  \/ \E r \in Requests, ok \in BOOLEAN, updateOk \in BOOLEAN : CompletionReturn(r, ok, updateOk)
  \/ Sweep
  \/ Advance

SpecThread == Init /\ [][NextThread]_vars

(* ---- the history update applied over and over ---- *)

\* histories to start from: any roles, contents numbered by position
FoldInputs ==
  LET roles == UNION { [1..n -> {"user", "assistant"}]
                       : n \in 0..(MAX_CONTEXT_MESSAGES * 2 + MaxExcess) }
  IN {[i \in 1..Len(rs) |-> Turn(rs[i], i)] : rs \in roles}

InitFold ==
  /\ Loaded
  /\ apiReq = NoApiRequest
  /\ lastRebuild = NoRebuild
  /\ \E h \in FoldInputs : lastFold = [NoFold EXCEPT !.result = h]

\* one more exchange is folded into the history the last one produced
FoldStep ==
  /\ lastFold.n < MaxFolds
  /\ lastFold' =
       [existing |-> lastFold.result,
        user |-> UserMessage(lastFold.n + 1),
        assistant |-> AiResponse(lastFold.n + 1),
        result |-> UpdatedHistory(lastFold.result, UserTurn(lastFold.n + 1),
                                  AssistantTurn(lastFold.n + 1)),
        n |-> lastFold.n + 1]
  /\ UNCHANGED <<now, cache, rateLimitMap, insOrder, lastOp, admitLog, denyLog,
                 lastAdmit, reqs, lastDone, lastRebuild, nextSweep, apiReq>>

NextFold == FoldStep

SpecFold == InitFold /\ [][NextFold]_vars

(* ---- getThreadHistory applied to fetched messages ---- *)

\* how many messages a fetched thread has at most
MaxFetched == 4

\* the shapes of a message: a user's message with text or without, the bot's message
\* plain or relayed (subtype bot_message), a message with another subtype; the text of
\* the message with timestamp ts is 10 + ts
Shapes == {"user", "user_empty", "bot", "bot_relayed", "user_join"}

MessageOf(ts, shape) ==
  CASE shape = "user" -> RawMessage(ts, "U1", "", "", 10 + ts)
    [] shape = "user_empty" -> RawMessage(ts, "U1", "", "", 0)
    [] shape = "bot" -> RawMessage(ts, BotUserId, "B1", "", 10 + ts)
    [] shape = "bot_relayed" -> RawMessage(ts, BotUserId, "B1", "bot_message", 10 + ts)
    [] shape = "user_join" -> RawMessage(ts, "U1", "", "channel_join", 10 + ts)

\* fetched threads of n messages: different timestamps in any order, any shapes
RebuildInputs(n) ==
  LET orders == {ts \in [1..n -> 1..MaxFetched] :
                   \A i, j \in 1..n : i # j => ts[i] # ts[j]}
  IN {[i \in 1..n |-> MessageOf(ts[i], sh[i])] : ts \in orders, sh \in [1..n -> Shapes]}

InitRebuild ==
  /\ Loaded
  /\ apiReq = NoApiRequest
  /\ lastFold = NoFold
  /\ \E n \in 0..MaxFetched : \E m \in RebuildInputs(n) :
       lastRebuild = [NoRebuild EXCEPT !.msgs = m]

\* getThreadHistory runs on the fetched messages
RebuildStep ==
  /\ ~lastRebuild.done
  /\ lastRebuild' = [msgs |-> lastRebuild.msgs,
                     result |-> getThreadHistory(lastRebuild.msgs),
                     done |-> TRUE]
  /\ UNCHANGED <<now, cache, rateLimitMap, insOrder, lastOp, admitLog, denyLog,
                 lastAdmit, reqs, lastDone, lastFold, nextSweep, apiReq>>

NextRebuild == RebuildStep

SpecRebuild == InitRebuild /\ [][NextRebuild]_vars

(* ---- getThreadHistory on messages of every kind ---- *)

\* longest thread classified
MaxClassified == 2

\* what a message can carry besides its timestamp: the author's user id (a user, the
\* bot, none), a bot id (none, a bot's, one equal to botUserId), a subtype (none,
\* bot_message, another) and a text or none
MessageFields ==
  [user : {"U1", BotUserId, ""},
   bot_id : {"", "B1", BotUserId},
   subtype : {"", "bot_message", "channel_join"},
   hasText : BOOLEAN]

\* threads of n messages in timestamp order, of every kind
ClassifyInputs(n) ==
  { [i \in 1..n |-> RawMessage(i, f[i].user, f[i].bot_id, f[i].subtype,
                               IF f[i].hasText THEN 10 + i ELSE 0)] :
      f \in [1..n -> MessageFields] }

InitClassify ==
  /\ Loaded
  /\ apiReq = NoApiRequest
  /\ lastFold = NoFold
  /\ \E n \in 0..MaxClassified : \E m \in ClassifyInputs(n) :
       lastRebuild = [NoRebuild EXCEPT !.msgs = m]

SpecClassify == InitClassify /\ [][NextRebuild]_vars

(* ---- the cache under its cleanup timer ---- *)

\* last clock value at which the cache is still written
MaxPutTime == 3

\* the clock runs until every entry written by then has met a sweep
SweepHorizon == MaxPutTime + TTL + SWEEP_PERIOD

SweepThreads == {1, 2, 3}

RearmNever(t) == 0 - 1

\* setInterval: the timer that fired at t fires again one period later
Rearm(t) == t + SWEEP_PERIOD

\* time passes, but not past a firing of the timer
TimerTick ==
  /\ now # nextSweep
  /\ now < SweepHorizon
  /\ now' = now + 1
  /\ UNCHANGED <<cache, rateLimitMap, insOrder, lastOp, admitLog, denyLog, lastAdmit,
                 reqs, lastDone, lastFold, lastRebuild, nextSweep, apiReq>>

\* the timer fires: cleanup() runs and the timer is armed again
TimerSweep ==
  /\ now = nextSweep
  /\ cache' = Cleanup(cache, now)
  /\ nextSweep' = Rearm(nextSweep)
  /\ UNCHANGED <<now, rateLimitMap, insOrder, lastOp, admitLog, denyLog, lastAdmit,
                 reqs, lastDone, lastFold, lastRebuild, apiReq>>

\* request traffic: set and get calls on the cache
TimerPut(threadId) ==
  /\ now <= MaxPutTime
  /\ cache' = CacheSet(cache, threadId, <<Turn("user", threadId)>>, now)
  /\ UNCHANGED <<now, rateLimitMap, insOrder, lastOp, admitLog, denyLog, lastAdmit,
                 reqs, lastDone, lastFold, lastRebuild, nextSweep, apiReq>>

TimerGet(threadId) ==
  /\ cache' = CacheGet(cache, threadId, now).cache
  /\ UNCHANGED <<now, rateLimitMap, insOrder, lastOp, admitLog, denyLog, lastAdmit,
                 reqs, lastDone, lastFold, lastRebuild, nextSweep, apiReq>>

NextTimer ==
  \/ TimerTick
  \/ TimerSweep
  \/ \E k \in SweepThreads : TimerPut(k)
  \/ \E k \in SweepThreads : TimerGet(k)

\* time passes and the timer callback runs when it is due
SpecTimer == Init /\ [][NextTimer]_vars /\ WF_vars(TimerTick) /\ WF_vars(TimerSweep)

(* ---- POST /api/decision-record ---- *)

\* longest title text
MaxTitleLen == 2

\* values of the X-API-Key header and of DECISION_API_KEY; "" is an absent header, an
\* unset or an empty variable
ApiKeys == {"", "k1", "k2"}

\* title values: absent, a number, a text of blanks and letters
Titles ==
  {[type |-> "undefined", n |-> 0, chars |-> << >>]}
    \cup {[type |-> "number", n |-> n, chars |-> << >>] : n \in {0, 5}}
    \cup {[type |-> "string", n |-> 0, chars |-> cs] :
            cs \in UNION {[1..k -> {" ", "a"}] : k \in 0..MaxTitleLen}}

\* request bodies: depth says how much of data.record.data is there (0: no data,
\* 1: data, 2: data.record, 3: data.record.data)
Bodies ==
  {[depth |-> d] : d \in 0..2} \cup {[depth |-> 3, title |-> t] : t \in Titles}

\* String.prototype.trim
RECURSIVE TrimStart(_)
TrimStart(cs) == IF cs # << >> /\ Head(cs) = " " THEN TrimStart(Tail(cs)) ELSE cs

RECURSIVE TrimEnd(_)
TrimEnd(cs) ==
  IF cs # << >> /\ cs[Len(cs)] = " " THEN TrimEnd(SubSeq(cs, 1, Len(cs) - 1)) ELSE cs

Trim(cs) == TrimEnd(TrimStart(cs))

\* !title in JavaScript
Falsy(title) ==
  \/ title.type = "undefined"
  \/ title.type = "number" /\ title.n = 0
  \/ title.type = "string" /\ title.chars = << >>

authMiddlewareAnyKey(apiKey, expectedApiKey) ==
  IF expectedApiKey = "" THEN 500
  ELSE IF apiKey = "" THEN 401
  ELSE 0

\* authMiddleware: the status it answers with, or 0 when it calls next()
authMiddleware(apiKey, expectedApiKey) ==
  IF expectedApiKey = "" THEN 500
  ELSE IF apiKey = "" THEN 401
  ELSE IF apiKey # expectedApiKey THEN 401
  ELSE 0

validateDecisionRecordNoTitle(body) ==
  IF body.depth < 3 THEN 400 ELSE 0

\* validateDecisionRecord: the status it answers with, or 0 when it calls next()
validateDecisionRecord(body) ==
  IF body.depth < 3 THEN 400
  ELSE IF \/ Falsy(body.title)
          \/ body.title.type # "string"
          \/ Trim(body.title.chars) = << >> THEN 400
  ELSE 0

\* a request arrives with its header, its body and the configured key
ApiArrive(apiKey, expectedApiKey, body) ==
  /\ apiReq.pc = "none"
  /\ apiReq' = [pc |-> "auth", apiKey |-> apiKey, expected |-> expectedApiKey,
                body |-> body, status |-> 0, post |-> FALSE]
  /\ UNCHANGED <<now, cache, rateLimitMap, insOrder, lastOp, admitLog, denyLog,
                 lastAdmit, reqs, lastDone, lastFold, lastRebuild, nextSweep>>

\* the route's chain of app.js line 233: authMiddleware, then validateDecisionRecord
ApiAuth ==
  LET st == authMiddleware(apiReq.apiKey, apiReq.expected)
  IN /\ apiReq.pc = "auth"
     /\ apiReq' = IF st = 0 THEN [apiReq EXCEPT !.pc = "validate"]
                            ELSE [apiReq EXCEPT !.pc = "done", !.status = st]
     /\ UNCHANGED <<now, cache, rateLimitMap, insOrder, lastOp, admitLog, denyLog,
                    lastAdmit, reqs, lastDone, lastFold, lastRebuild, nextSweep>>

ApiValidate ==
  LET st == validateDecisionRecord(apiReq.body)
  IN /\ apiReq.pc = "validate"
     /\ apiReq' = IF st = 0 THEN [apiReq EXCEPT !.pc = "handle"]
                            ELSE [apiReq EXCEPT !.pc = "done", !.status = st]
     /\ UNCHANGED <<now, cache, rateLimitMap, insOrder, lastOp, admitLog, denyLog,
                    lastAdmit, reqs, lastDone, lastFold, lastRebuild, nextSweep>>

\* handleDecisionRecord: the channel is resolved (or not, or that throws), then
\* chat.postMessage is called and answers ok, not ok, or throws; the catch block
\* answers 400 when the error's message names a channel, else 500
ApiHandle(outcome, namesChannel) ==
  /\ apiReq.pc = "handle"
  /\ apiReq' = [apiReq EXCEPT !.pc = "done",
                              !.status = CASE outcome = "posted" -> 200
                                           [] outcome \in {"no_channel", "not_ok"} -> 500
                                           [] OTHER -> IF namesChannel THEN 400 ELSE 500,
                              !.post = outcome \in {"posted", "not_ok", "post_threw"}]
  /\ UNCHANGED <<now, cache, rateLimitMap, insOrder, lastOp, admitLog, denyLog,
                 lastAdmit, reqs, lastDone, lastFold, lastRebuild, nextSweep>>

NextApi ==
  \/ \E k \in ApiKeys, e \in ApiKeys, b \in Bodies : ApiArrive(k, e, b)
  \/ ApiAuth
  \/ ApiValidate
  \/ \E outcome \in {"no_channel", "resolve_threw", "posted", "not_ok", "post_threw"},
        namesChannel \in BOOLEAN : ApiHandle(outcome, namesChannel)

SpecApi == Init /\ [][NextApi]_vars

(* ======================== properties ======================== *)

\* the step being taken is the harness call `op`
IsStep(op) == lastOp'.op = op

\* C1: after any sequence of set, get and cleanup calls the Map never holds more
\* than MAX_CACHE_SIZE entries.
C1_SizeBounded == Len(cache) <= MAX_CACHE_SIZE

\* a new key was written into a full Map, and the Map is still exactly full
C1_Witness ==
  /\ lastOp.op = "set"
  /\ lastOp.preLen = MAX_CACHE_SIZE
  /\ ~lastOp.preHad
  /\ Len(cache) = MAX_CACHE_SIZE

C3_EvictsOnlyForNewKey ==
  lastOp.op = "set" =>
    /\ lastOp.evicted # << >> => (~lastOp.preHad /\ lastOp.preLen >= MAX_CACHE_SIZE)
    /\ lastOp.preHad => Len(cache) = lastOp.preLen

\* C4: get(key) at a time more than TTL after the entry's last write returns nothing
\* and deletes the entry, whether or not cleanup() ran in between.
C4_ExpiredNeverReturned ==
  [][ (/\ IsStep("get")
       /\ HasKey(cache, lastOp'.key)
       /\ now - cache[IndexOf(cache, lastOp'.key)].timestamp > TTL)
      => (/\ ~lastOp'.hit
          /\ lastOp'.context = NoContext
          /\ ~HasKey(cache', lastOp'.key)
          /\ Len(cache') = Len(cache) - 1)
    ]_vars

\* a get() found its key present but expired: nothing returned, the entry deleted
C4_Witness ==
  /\ lastOp.op = "get"
  /\ lastOp.preHad
  /\ ~lastOp.hit
  /\ ~HasKey(cache, lastOp.key)
  /\ Len(cache) = lastOp.preLen - 1

\* C5: cleanup() at time now removes exactly the entries with now - timestamp > TTL;
\* every other entry stays, with the same context and timestamp.
C5_SweepRemovesExactlyExpired ==
  [][ IsStep("cleanup") =>
        /\ \A i \in 1..Len(cache) :
             IF now - cache[i].timestamp > TTL
               THEN ~HasKey(cache', cache[i].threadId)
               ELSE \E j \in 1..Len(cache') : cache'[j] = cache[i]
        /\ \A j \in 1..Len(cache') : \E i \in 1..Len(cache) : cache[i] = cache'[j]
    ]_vars

\* a cleanup() removed something and kept an entry that is exactly TTL old
C5_Witness ==
  /\ lastOp.op = "cleanup"
  /\ Len(cache) > 0
  /\ Len(cache) < lastOp.preLen
  /\ \E i \in 1..Len(cache) : lastOp.time - cache[i].timestamp = TTL

\* the turns of request r are in no cached context
NoTurnOf(r) ==
  \A i \in 1..Len(cache) : \A k \in 1..Len(cache[i].context) :
    cache[i].context[k] \notin {UserTurn(r), AssistantTurn(r)}

\* C6: every context held in the cache has at most 2 * MAX_CONTEXT_MESSAGES turns,
\* whether it was stored from a rebuilt history or from an updated one.
C6_TurnsBounded ==
  \A i \in 1..Len(cache) : Len(cache[i].context) <= MAX_CONTEXT_MESSAGES * 2

\* a rebuilt history of FetchLimit turns was updated and lost its oldest turn
C6_Witness ==
  \E i \in 1..Len(cache), r \in Requests :
    /\ Len(cache[i].context) = MAX_CONTEXT_MESSAGES * 2
    /\ cache[i].context[1] = Turn("assistant", 12)
    /\ cache[i].context[Len(cache[i].context)] = AssistantTurn(r)

\* C7: the updated history is the old history followed by the two new turns, less a
\* prefix: at most 2 * MAX_CONTEXT_MESSAGES long, order kept, ending with the user turn
\* and then the assistant turn.
C7_FoldKeepsNewestSuffix ==
  lastFold.n > 0 =>
    LET all == lastFold.existing \o <<Turn("user", lastFold.user),
                                      Turn("assistant", lastFold.assistant)>>
        res == lastFold.result
        dropped == Len(all) - Len(res)
    IN /\ dropped >= 0
       /\ res = SubSeq(all, dropped + 1, Len(all))
       /\ Len(res) <= MAX_CONTEXT_MESSAGES * 2
       /\ Len(res) >= 2
       /\ res[Len(res) - 1] = Turn("user", lastFold.user)
       /\ res[Len(res)] = Turn("assistant", lastFold.assistant)

\* a history already at the bound was updated: its two oldest turns went
C7_Witness ==
  /\ lastFold.n > 1
  /\ Len(lastFold.existing) = MAX_CONTEXT_MESSAGES * 2
  /\ Len(lastFold.result) = MAX_CONTEXT_MESSAGES * 2
  /\ lastFold.result[1] = lastFold.existing[3]

\* C8: for every user and every time t, at most MAX_REQUESTS_PER_WINDOW calls with a
\* timestamp in the window (t - RATE_LIMIT_WINDOW, t] returned true; a call is admitted
\* exactly when fewer than MAX_REQUESTS_PER_WINDOW admitted calls lie in its own window.
C8_AtMostNPerWindow ==
  /\ \A u \in Users, t \in Times :
       InWindow(admitLog[u], t) <= MAX_REQUESTS_PER_WINDOW
  /\ lastAdmit.user # 0 =>
       (lastAdmit.ok <=> lastAdmit.inWindow < MAX_REQUESTS_PER_WINDOW)

\* MAX_REQUESTS_PER_WINDOW calls at one instant were admitted, one more at that instant
\* was denied, and a call RATE_LIMIT_WINDOW + 1 later was admitted again
C8_Witness ==
  \E u \in Users, t0 \in Times :
    /\ Cardinality({i \in 1..Len(admitLog[u]) : admitLog[u][i] = t0})
         = MAX_REQUESTS_PER_WINDOW
    /\ t0 \in denyLog[u]
    /\ lastAdmit = [user |-> u, time |-> t0 + RATE_LIMIT_WINDOW + 1, ok |-> TRUE,
                    inWindow |-> 0]

OnlyStarted(r) == \A q \in Requests \ {r} : reqs[q].pc = "new"

\* C11: a thread request whose completion call threw leaves the cache as it found it:
\* it has put nothing, and when it ran alone from the empty cache the cache is still
\* empty.
C11_AbortLeavesStoreAsFound ==
  (lastDone.completion = "failed" /\ lastDone.thread # 0) =>
    /\ "set" \notin lastDone.did
    /\ (reqs[1].pc = "done" /\ OnlyStarted(1)) => cache = << >>

\* C12: a thread fetch that fails on a miss does not fail the request: the handler goes
\* on to the completion call with an empty history, posts nothing more and puts
\* nothing into the cache.
C12_FetchFailureProceedsEmpty ==
  [][ \A r \in Requests :
        (reqs[r].pc = "fetching" /\ reqs'[r] # reqs[r]) =>
          /\ reqs'[r].pc = "completing"
          /\ "complete" \in reqs'[r].did
          /\ "fetch_failed" \in reqs'[r].did =>
               /\ reqs'[r].history = << >>
               /\ reqs'[r].out = reqs[r].out
               /\ "set" \notin reqs'[r].did
               /\ SeqRange(cache') \subseteq SeqRange(cache) ]_vars

\* a request waits for its completion call after its fetch failed; its thread is not
\* in the cache
C12_Witness ==
  \E r \in Requests :
    /\ reqs[r].pc = "completing"
    /\ "fetch_failed" \in reqs[r].did
    /\ reqs[r].history = << >>
    /\ ~HasKey(cache, reqs[r].thread)

\* the fetched messages that can become a turn: no subtype other than bot_message, and
\* written by the bot or carrying text
Eligible(msgs) ==
  { m \in SeqRange(msgs) :
      /\ m.subtype \in {"", "bot_message"}
      /\ (m.user = BotUserId \/ m.text # 0) }

FromBot(m) == m.user = BotUserId

\* the eligible messages with fewer than MAX_CONTEXT_MESSAGES user messages before them
KeptMessages(msgs) ==
  { m \in Eligible(msgs) :
      Cardinality({u \in Eligible(msgs) : ~FromBot(u) /\ u.ts < m.ts})
        < MAX_CONTEXT_MESSAGES }

\* C13: whatever the order of the fetched messages, the rebuilt history is in
\* ascending timestamp order, has at most MAX_CONTEXT_MESSAGES user turns, and holds
\* exactly the turns of the messages up to the MAX_CONTEXT_MESSAGES-th user message:
\* every assistant turn before it, nothing after it.
C13_RebuildSortedAndCut ==
  lastRebuild.done =>
    LET res == lastRebuild.result
        kept == KeptMessages(lastRebuild.msgs)
    IN /\ \A i, j \in 1..Len(res) : i < j => res[i].content < res[j].content
       /\ Cardinality({i \in 1..Len(res) : res[i].role = "user"}) <= MAX_CONTEXT_MESSAGES
       /\ Len(res) = Cardinality(kept)
       /\ SeqRange(res) =
            {Turn(IF FromBot(m) THEN "assistant" ELSE "user", m.text) : m \in kept}

\* messages fetched newest first: the bot's reply lies between the user messages and a
\* user message beyond the limit is cut
C13_Witness ==
  /\ lastRebuild.done
  /\ Len(lastRebuild.msgs) = MaxFetched
  /\ lastRebuild.msgs[1].ts > lastRebuild.msgs[2].ts
  /\ Cardinality({m \in Eligible(lastRebuild.msgs) : ~FromBot(m)}) > MAX_CONTEXT_MESSAGES
  /\ Len(lastRebuild.result) = MAX_CONTEXT_MESSAGES + 1
  /\ lastRebuild.result[2].role = "assistant"
  /\ lastRebuild.result[Len(lastRebuild.result)].role = "user"

\* C14: the history handed to the completion service as prior context never has more
\* than MAX_CONTEXT_MESSAGES messages.
C14_PriorContextAtMostMax ==
  \A r \in Requests :
    reqs[r].pc = "completing" => Len(reqs[r].history) <= MAX_CONTEXT_MESSAGES

\* C15: a get that follows a get of the same key directly, at the same clock value,
\* returns what the first one returned, whether the key was live, expired or absent.
C15_GetTwiceSame ==
  (lastOp.op = "get" /\ lastOp.again) =>
    (lastOp.hit = lastOp.prev.hit /\ lastOp.context = lastOp.prev.context)

\* the first get found the entry expired, the second finds no entry
C15_Witness ==
  /\ lastOp.op = "get"
  /\ lastOp.again
  /\ lastOp.prev.preHad
  /\ ~lastOp.prev.hit
  /\ ~lastOp.preHad
  /\ ~lastOp.hit

\* thread k has an entry written at time t
HasEntryOf(k, t) == \E i \in 1..Len(cache) : cache[i].threadId = k /\ cache[i].timestamp = t

\* C16: under the periodic cleanup timer no entry is in the cache more than
\* TTL + SWEEP_PERIOD after it was written, and every entry that is not written again
\* is removed in the end, whether or not a request touches its key.
C16_SweptWithinTtlPlusPeriod ==
  /\ [](\A i \in 1..Len(cache) : now - cache[i].timestamp <= TTL + SWEEP_PERIOD)
  /\ \A k \in SweepThreads, t \in 0..MaxPutTime :
       HasEntryOf(k, t) ~> ~HasEntryOf(k, t)

\* an entry has stayed TTL + SWEEP_PERIOD: it was not yet expired at the sweep one
\* period ago and the next sweep is due now
C16_Witness ==
  /\ now = nextSweep
  /\ \E i \in 1..Len(cache) : now - cache[i].timestamp = TTL + SWEEP_PERIOD

\* C17: every admitted request ends, with the reply or with the failure notice, even
\* if the thread fetch or the completion call never answers.
C17_AdmittedTerminates ==
  /\ [](lastDone.admit = "ok" =>
         lastDone.out[Len(lastDone.out)] \in {"reply", "error"})
  /\ \A r \in Requests : (reqs[r].admit = "ok") ~> (reqs[r].pc = "done")

\* the request has the configured key and a non-empty text as its title
KeyAndTitle(q) ==
  /\ q.expected # ""
  /\ q.apiKey = q.expected
  /\ q.body.depth = 3
  /\ q.body.title.type = "string"
  /\ q.body.title.chars # << >>

\* C18: chat.postMessage is called only for a request whose X-API-Key equals the
\* configured DECISION_API_KEY and whose data.record.data.title is a non-empty
\* string; every other request is answered with an error status and posts nothing.
C18_PostOnlyWithKeyAndTitle ==
  /\ apiReq.post => KeyAndTitle(apiReq)
  /\ (apiReq.pc \in {"validate", "handle"}) => apiReq.apiKey = apiReq.expected
  /\ (apiReq.pc = "done" /\ ~KeyAndTitle(apiReq)) =>
       (apiReq.status \in {400, 401, 500} /\ ~apiReq.post)

\* a request with the right key and a title was posted
C18_Witness ==
  /\ apiReq.pc = "done"
  /\ apiReq.post
  /\ apiReq.status = 200
  /\ apiReq.apiKey = "k1"
  /\ apiReq.body.title.chars = <<"a", " ">>

\* how many of the logged timestamps lie in the closed window [t - RATE_LIMIT_WINDOW, t]
InWindowClosed(log, t) ==
  Cardinality({i \in 1..Len(log) : t - RATE_LIMIT_WINDOW <= log[i] /\ log[i] <= t})

\* C19: a call is admitted exactly when fewer than MAX_REQUESTS_PER_WINDOW earlier
\* admitted timestamps lie in [now - RATE_LIMIT_WINDOW, now]; a timestamp exactly
\* RATE_LIMIT_WINDOW old still counts.
C19_ClosedWindowCounted ==
  lastAdmit.user # 0 =>
    LET before == InWindowClosed(admitLog[lastAdmit.user], lastAdmit.time)
                    - (IF lastAdmit.ok THEN 1 ELSE 0)
    IN lastAdmit.ok <=> before < MAX_REQUESTS_PER_WINDOW

\* the recorded timestamps of user u that time t still counts
Counted(log, t) == SelectSeq(log, LAMBDA time : t - time < RATE_LIMIT_WINDOW)

\* C20: a denied call leaves the recorded timestamps as they were, so what is counted
\* for a user is always what was admitted, however many calls were denied.
C20_DeniedRecordsNothing ==
  /\ [](\A u \in Users : Counted(rateLimitMap[u], now) = Counted(admitLog[u], now))
  /\ [][(lastAdmit'.user # 0 /\ ~lastAdmit'.ok) =>
          (rateLimitMap' = rateLimitMap /\ admitLog' = admitLog)]_vars

\* calls denied at two successive times did not delay the next admission: the user is
\* admitted again RATE_LIMIT_WINDOW after the admitted calls
C20_Witness ==
  \E u \in Users, t0 \in Times :
    /\ Cardinality({i \in 1..Len(admitLog[u]) : admitLog[u][i] = t0})
         = MAX_REQUESTS_PER_WINDOW
    /\ {t0, t0 + 1} \subseteq denyLog[u]
    /\ lastAdmit = [user |-> u, time |-> t0 + RATE_LIMIT_WINDOW, ok |-> TRUE,
                    inWindow |-> 0]

\* the entry of thread k
EntryOf(c, k) == c[IndexOf(c, k)]

\* C21: an admitted thread request goes admit, get, then the fetch only if the get
\* missed (once), then the completion call on the turns obtained, then the put of the
\* updated history; a request whose get hit never fetches.
C21_StepsInOrder ==
  [][ \A r \in Requests :
        LET q == reqs[r]
            q2 == reqs'[r]
            g == CacheGet(cache, q.thread, now)
        IN (q2 # q) =>
             /\ (q.pc = "new" /\ q2.pc = "thinking") => (q2.admit = "ok" /\ q2.did = {})
             /\ (q.pc = "thinking" /\ q.thread # 0) =>
                  /\ q.admit = "ok" /\ q.did = {}
                  /\ q2.pc \in {"completing", "fetching", "done"}
                  /\ q2.pc = "completing" =>
                       (g.hit /\ q2.history = g.context /\ q2.did = {"get", "complete"})
                  /\ q2.pc = "fetching" => (~g.hit /\ q2.did = {"get", "fetch"})
                  /\ q2.pc = "done" => (q2.completion = "none" /\ cache' = cache)
             /\ q.pc = "fetching" =>
                  (q2.pc = "completing" /\ {"get", "fetch", "complete"} \subseteq q2.did)
             /\ (q.pc = "completing" /\ q.thread # 0) =>
                  /\ q2.pc = "done"
                  /\ "get" \in q.did
                  /\ q2.completion = "ok" =>
                       /\ HasKey(cache', q.thread)
                       /\ EntryOf(cache', q.thread).context
                            = UpdatedHistory(q.history, UserTurn(r), AssistantTurn(r))
                       /\ EntryOf(cache', q.thread).timestamp = now ]_vars

\* a request whose get hit has ended with its reply, without a fetch
C21_Witness ==
  /\ lastDone.thread # 0
  /\ lastDone.completion = "ok"
  /\ lastDone.did = {"get", "complete", "set"}
  /\ lastDone.out = <<"thinking", "reply">>

\* the requests whose handler has returned
Done == {q \in Requests : reqs[q].pc = "done"}

\* C22: after a thread request whose fetch failed (its rebuild returned the empty
\* sequence), the next request on that thread still misses the cache and fetches the
\* thread history again. The failed request is the only one that has returned, and
\* the next one has not yet touched the cache.
C22_FailedFetchNotMasking ==
  [][ \A r \in Requests :
        ( /\ reqs[r].pc = "thinking"
          /\ reqs[r].thread # 0
          /\ reqs'[r].pc \in {"completing", "fetching"}
          /\ lastDone.thread = reqs[r].thread
          /\ "fetch_failed" \in lastDone.did
          /\ Cardinality(Done) = 1
          /\ \A q \in Requests \ (Done \cup {r}) : reqs[q].pc = "new" )
        => /\ reqs'[r].pc = "fetching"
           /\ "fetch" \in reqs'[r].did ]_vars

\* the message is written by the bot itself
BotAuthored(m) == m.user = BotUserId \/ m.bot_id = BotUserId

\* the turn a message stands for: none, or the role of the turn
ClassOf(m) ==
  IF m.subtype \notin {"", "bot_message"} THEN "none"
  ELSE IF BotAuthored(m) THEN "assistant"
  ELSE IF m.text # 0 THEN "user"
  ELSE "none"

C24_AdmitPerIdentity ==
  /\ [][ lastAdmit'.user # 0 =>
          LET u == lastAdmit'.user
          IN /\ \A v \in Users \ {u} : rateLimitMap'[v] = rateLimitMap[v]
             /\ lastAdmit'.ok <=>
                  Len(Counted(admitLog[u], now)) < MAX_REQUESTS_PER_WINDOW ]_vars
  /\ [](\A a \in Users : \A b \in Users \ {a} :
          LET ra == checkRateLimit(rateLimitMap, a, now)
              rb == checkRateLimit(rateLimitMap, b, now)
              rab == checkRateLimit(ra.map, b, now)
              rba == checkRateLimit(rb.map, a, now)
          IN /\ rab.ok = rb.ok
             /\ rba.ok = ra.ok
             /\ rab.map = rba.map
             /\ \A other \in {<< >>, <<now>>, <<now, now>>} :
                  LET alt == checkRateLimit([rateLimitMap EXCEPT ![b] = other], a, now)
                  IN alt.ok = ra.ok /\ alt.map[a] = ra.map[a])

\* a user is denied while the other user, who has calls on record, has room left
C24_Witness ==
  /\ lastAdmit.user = 1
  /\ ~lastAdmit.ok
  /\ Len(Counted(rateLimitMap[2], now)) = 1
  /\ Len(admitLog[2]) >= 1

\* C25: a get that returns a value returns the turns of the most recent put on its key,
\* whole and in order, and that put stamped the entry with its own time. Step by step:
\* a put leaves under its key exactly its turns and its time; no other call (a put on
\* another key, a get, a sweep, the clock) alters an entry that stays or brings one
\* back; a get that hits returns the turns of the entry of its own key.
C25_GetReturnsLastPut ==
  [][ /\ lastOp'.op = "set" =>
           /\ Cardinality({i \in 1..Len(cache') : cache'[i].threadId = lastOp'.key}) = 1
           /\ EntryOf(cache', lastOp'.key) =
                [threadId |-> lastOp'.key, context |-> lastOp'.context, timestamp |-> now]
      /\ \A k \in Threads :
           (HasKey(cache', k) /\ ~(lastOp'.op = "set" /\ lastOp'.key = k)) =>
             (HasKey(cache, k) /\ EntryOf(cache', k) = EntryOf(cache, k))
      /\ (lastOp'.op = "get" /\ lastOp'.hit) =>
           /\ HasKey(cache, lastOp'.key)
           /\ lastOp'.context = EntryOf(cache, lastOp'.key).context
           /\ now - EntryOf(cache, lastOp'.key).timestamp <= TTL ]_vars

\* a get returns the turns of the second put on its key, made at a later time than the
\* first, while another key holds other turns
C25_Witness ==
  /\ lastOp.op = "get"
  /\ lastOp.hit
  /\ lastOp.key = 2
  /\ lastOp.context = <<Turn("user", 1), Turn("assistant", 2)>>
  /\ EntryOf(cache, 2).timestamp = 1
  /\ insOrder = <<2, 1>>
  /\ EntryOf(cache, 1).context = <<Turn("user", 1)>>

\* the stored context of thread k holds the exchange of request q
HoldsExchange(c, k, q) ==
  /\ HasKey(c, k)
  /\ {UserTurn(q), AssistantTurn(q)} \subseteq SeqRange(EntryOf(c, k).context)

\* C26: when two admitted requests of one thread overlap (the second to finish read
\* the thread's context before the first wrote its exchange back) and both complete,
\* the stored context holds the exchanges of both.
C26_NoExchangeLost ==
  [][ \A r \in Requests : \A q \in Requests \ {r} :
        ( /\ reqs[r].pc = "completing"
          /\ reqs[r].thread # 0
          /\ reqs'[r].pc = "done"
          /\ reqs'[r].completion = "ok"
          /\ HoldsExchange(cache, reqs[r].thread, q)
          /\ UserTurn(q) \notin SeqRange(reqs[r].history) )
        => /\ HoldsExchange(cache', reqs[r].thread, r)
           /\ HoldsExchange(cache', reqs[r].thread, q) ]_vars

\* how often the message of request r (as posted or as userMessage) is a user turn of s
TimesAsked(s, r) ==
  Cardinality({i \in 1..Len(s) :
                 s[i].role = "user" /\ s[i].content \in {EventText(r), UserMessage(r)}})

\* C27: when the thread fetched on a miss already holds the mention and the thinking
\* message, the new user message is once in the prompt and once in the stored context,
\* and the thinking message is not stored as an assistant turn.
C27_MentionOnceNoPlaceholder ==
  /\ \A r \in Requests :
       ( /\ reqs[r].pc = "completing"
         /\ "fetch" \in reqs[r].did
         /\ "fetch_failed" \notin reqs[r].did )
       => TimesAsked(Prompt(reqs[r].history, UserMessage(r)), r) = 1
  /\ \A i \in 1..Len(cache) :
       /\ \A r \in Requests : TimesAsked(cache[i].context, r) <= 1
       /\ Turn("assistant", ThinkingText) \notin SeqRange(cache[i].context)

\* C28: the record of every user holds at most MAX_REQUESTS_PER_WINDOW timestamps, and
\* right after a denied call every timestamp in the caller's record lies in the window
\* that ends at the time of the call.
C28_RecordBoundedAndFresh ==
  /\ \A u \in Users : Len(rateLimitMap[u]) <= MAX_REQUESTS_PER_WINDOW
  /\ (lastAdmit.user # 0 /\ ~lastAdmit.ok) =>
       \A i \in 1..Len(rateLimitMap[lastAdmit.user]) :
         LET time == rateLimitMap[lastAdmit.user][i]
         IN lastAdmit.time - RATE_LIMIT_WINDOW < time /\ time <= lastAdmit.time

\* a call is denied at time 2 on a record that was pruned when it was last written
C28_Witness ==
  /\ lastAdmit.user = 1
  /\ ~lastAdmit.ok
  /\ lastAdmit.time = 2
  /\ rateLimitMap[1] = <<1, 2>>
  /\ admitLog[1] = <<0, 1, 2>>

\* C29: a put on a key the store already holds refreshes the entry's time and leaves
\* the key where it is in the eviction order: it stays before the keys it was before
\* and after the keys it was after, so the next eviction still takes the key that
\* entered first.
C29_ReplacingPutKeepsOrder ==
  [][ (lastOp'.op = "set" /\ lastOp'.preHad) =>
        LET k == lastOp'.key
        IN /\ HasKey(cache', k)
           /\ EntryOf(cache', k).timestamp = now
           /\ \A j \in Threads \ {k} :
                (HasKey(cache, j) /\ HasKey(cache', j)) =>
                  ((IndexOf(cache, k) < IndexOf(cache, j))
                     <=> (IndexOf(cache', k) < IndexOf(cache', j))) ]_vars

\* request r as the step leaves it (a handler that returned is on record in lastDone)
After(r) == IF reqs'[r].pc = "done" THEN lastDone' ELSE reqs'[r]

\* C30: a request without a thread (a mention outside a thread, a direct message) never
\* reads or writes the cache: each of its steps leaves the cache as it is and none is a
\* get, fetch or set; and it calls checkRateLimit once: before it posts a notice or
\* the thinking message or calls the completion service, and never again.
C30_NoThreadNoStore ==
  [][ \A r \in Requests :
        LET q == reqs[r]
            q2 == After(r)
        IN (reqs'[r] # q /\ q2.kind \in {"mention", "dm"} /\ q2.thread = 0) =>
             /\ cache' = cache
             /\ q2.did \subseteq {"complete"}
             /\ (q2.pc = "completing" \/ q2.completion # "none") => q2.admit = "ok"
             /\ "rate_limit" \in SeqRange(q2.out) => q2.admit = "denied"
             /\ "thinking" \in SeqRange(q2.out) => q2.admit = "ok"
             /\ q.admit # "none" => (q2.admit = q.admit /\ rateLimitMap' = rateLimitMap)
             /\ (q.admit = "none" /\ q2.admit # "none") =>
                  LET a == checkRateLimit(rateLimitMap, q2.user, now)
                  IN rateLimitMap' = a.map /\ (q2.admit = "ok" <=> a.ok) ]_vars

\* a direct message has been answered while the cache holds a thread's context
C30_Witness ==
  /\ lastDone.kind = "dm"
  /\ lastDone.admit = "ok"
  /\ lastDone.completion = "ok"
  /\ lastDone.did = {"complete"}
  /\ lastDone.out = <<"thinking", "reply">>
  /\ Len(cache) = 1

====
